---- MODULE Spec2Model ----
(***************************************************************************)
(* Credit ledger and user directory of the admin console.                  *)
(*                                                                         *)
(* The relational store (tables users and credit_transactions) is the      *)
(* state; every HTTP handler of registerRoutes is an action.  A handler    *)
(* that issues one SQL statement is one atomic step.  The handler of       *)
(* POST /api/users/:id/credits awaits three statements in a row (select,   *)
(* update, insert) with no database transaction around them, so it is      *)
(* three steps and the steps of different requests interleave.             *)
(***************************************************************************)
EXTENDS Integers, Sequences, FiniteSets, TLC

\* ------------------------------------------------------------------ bounds

\* Rows the users table can hold (ids 1..MaxUsers; id 1 is the seeded admin).
MaxUsers == 2
\* HTTP requests handled in one run.
MaxReqs == 2
\* Instants of the database clock after the first (0..MaxClock).
MaxClock == 1
\* Rows the searches table can hold.
MaxSearches == 2
\* Requests one browser session sends to the external search provider.
MaxCalls == 2
\* Requests the credit modal issues in one run.
MaxIssued == 2

\* ------------------------------------------------------------- value sets

UserIds == 1..MaxUsers
Reqs == 1..MaxReqs

SeedEmail == "admin@sistema.com"
Emails == {SeedEmail, "user@x.com"}
Roles == {"admin", "regular"}
Statuses == {"active", "blocked"}
Names == {"n1", "n2"}
Passwords == {"p1", "p2"}

\* Amounts an admin posts to the ledger: a debit, zero, a credit.  All amounts
\* and balances of the model lie well inside the range of the integer columns.
Amounts == {-80, 0, 50}
\* Limits posted to PATCH /api/users/:id/credit-limit.
Limits == {-1, 10}
\* Values of the optional credits field of POST /api/users.
CreateCredits == {-5, 10}

\* The salted hash of auth.ts, as a function of the clear password only.
hashPassword(p) == IF p = "p1" THEN "h1" ELSE "h2"

comparePasswords(supplied, stored) == hashPassword(supplied) = stored

\* ------------------------------------------------------------------ state

VARIABLES
    users,                \* table users: id -> row, for the ids that exist
    creditTransactions,   \* table credit_transactions, in insertion order
    req,                  \* the HTTP requests: slot -> handler position and locals
    now,                  \* the clock: new Date(), Date.now(), the database's now()
    searches,             \* table searches, in insertion order
    searchCost,           \* the system setting read by /api/settings/search-cost
    client,               \* one browser session: react-query cache and page state
    provider,             \* the requests sent to the external search provider
    modal                 \* the credit modal: its two fields, the requests it issued

\* What the handlers of registerRoutes never touch.
pageVars == <<searches, searchCost, client, provider, modal>>

vars == <<users, creditTransactions, req, now, searches, searchCost, client,
          provider, modal>>

\* Column defaults of the users table.
DefaultCredits == 0
DefaultCreditLimit == 100

UserRow(email, password, firstName, lastName, role, credits) ==
    [email |-> email, password |-> password, firstName |-> firstName,
     lastName |-> lastName, role |-> role, status |-> "active",
     credits |-> credits, creditLimit |-> DefaultCreditLimit,
     updatedAt |-> now]

\* seedAdmin: the one row the seed script inserts.
SeedAdmin ==
    UserRow(SeedEmail, hashPassword("p1"), "n1", "n1", "admin", DefaultCredits)

\* An empty request body.
NoData == [f \in {} |-> 0]

IdleReq ==
    [route |-> "none", pc |-> "idle", actor |-> 0, id |-> 0, amount |-> 0,
     read |-> 0, newBalance |-> 0, data |-> NoData, status |-> 0,
     message |-> "", body |-> NoData, thrown |-> "none"]

\* A request whose response was delivered.
ClosedReq == [IdleReq EXCEPT !.pc = "closed"]

\* useQuery({ queryKey: ["/api/settings/search-cost"] }): data = 10 until the
\* query has answered.
DefaultSearchCost == 10

\* The browser before the page is opened: no session, nothing cached; the
\* state of the home page as useState and useQuery construct it.
HomePage ==
    [id |-> 0, user |-> NoData, searchCost |-> DefaultSearchCost,
     searches |-> <<>>, lastStatusUpdate |-> 0, isUpdatingStatus |-> FALSE,
     isPending |-> FALSE, creditsUsed |-> 0, toast |-> "none"]

\* The credit modal as useState("") constructs it; a field is the sequence
\* of the characters typed into it.
CreditModal ==
    [creditAmount |-> <<>>, creditLimit |-> <<>>, issued |-> <<>>,
     toast |-> "none"]

Init ==
    /\ now = 0
    /\ users = (1 :> SeedAdmin)
    /\ creditTransactions = <<>>
    /\ req = [r \in Reqs |-> IdleReq]
    /\ searches = <<>>
    /\ searchCost = DefaultSearchCost
    /\ client = HomePage
    /\ provider = <<>>
    /\ modal = CreditModal

\* ------------------------------------------------------------ storage layer

\* getUser with its WHERE clause lost: the first row of the table, whatever id.
getUserNoWhere(id) ==
    IF DOMAIN users = {} THEN {}
    ELSE {users[CHOOSE i \in DOMAIN users : \A j \in DOMAIN users : i <= j]}

\* getUser: the row with this id, if any.
getUser(id) == IF id \in DOMAIN users THEN {users[id]} ELSE {}

\* user.credits of the row getUser returned.
Credits(found) == (CHOOSE u \in found : TRUE).credits

\* A lookup that matches no row.
getUserByEmailNoMatch(email) == {}

\* getUserByEmail: the ids whose row has this email.
getUserByEmail(email) == {i \in DOMAIN users : users[i].email = email}

\* The new balance without the clamp at zero.
NewBalanceNoClamp(credits, amount) == credits + amount

\* Math.max(0, user.credits + amount)
NewBalance(credits, amount) ==
    IF credits + amount > 0 THEN credits + amount ELSE 0

\* UPDATE users SET <data> WHERE id = <id>: the table after the statement.
\* No row matches an unknown id and the table is unchanged.
SetColumns(id, data) ==
    IF id \in DOMAIN users
    THEN [users EXCEPT ![id] =
             [f \in DOMAIN users[id] |->
                 IF f \in DOMAIN data THEN data[f] ELSE users[id][f]]]
    ELSE users

\* The unique index on users.email: would this update collide?
EmailTaken(id, data) ==
    /\ "email" \in DOMAIN data
    /\ \E i \in DOMAIN users : i # id /\ users[i].email = data.email

\* The credit_transactions row updateUserCredits inserts.
TransactionRow(userId, amount, previousBalance, newBalance, adminId) ==
    [userId |-> userId, amount |-> amount, previousBalance |-> previousBalance,
     newBalance |-> newBalance, adminId |-> adminId, createdAt |-> now]

\* ------------------------------------------------------------- middleware

\* The middleware without its role test: any logged-in user passes.
isAdminAnyRole(actor) == actor \in DOMAIN users

\* isAdmin: the session's user (req.user, loaded from the users table for each
\* request) has role admin.
isAdmin(actor) == actor \in DOMAIN users /\ users[actor].role = "admin"

\* No response is waiting to be delivered.
Delivered == \A q \in Reqs : req[q].pc # "done"

\* A request slot is taken in order, by a logged-in user.
Arrives(r, actor) ==
    /\ req[r].pc = "idle"
    /\ \A q \in Reqs : q < r => req[q].pc # "idle"
    /\ actor \in DOMAIN users

\* The handler returns: its locals are gone; the request (session user, route,
\* :id) and the response (HTTP status, the exception the storage layer threw)
\* stay until the response is delivered.
Response(actor, route, id, status, thrown) ==
    [IdleReq EXCEPT !.route = route, !.pc = "done", !.actor = actor, !.id = id,
                    !.status = status, !.thrown = thrown]

Respond(r, actor, route, id, status) ==
    req' = [req EXCEPT ![r] = Response(actor, route, id, status, "none")]

\* The same, of a request whose body (req.body) was data.
RespondTo(r, actor, route, id, data, status) ==
    req' = [req EXCEPT ![r] =
               [Response(actor, route, id, status, "none") EXCEPT !.data = data]]

\* The routes registered with the isAdmin middleware.
AdminRoutes ==
    {"createUser", "listUsers", "stats", "updateUser", "credits",
     "creditLimit", "transactions", "block", "unblock"}

\* Any admin route asked by a session that is not an admin's: 403.
Forbidden(r) ==
    \E actor \in DOMAIN users, id \in UserIds, route \in AdminRoutes :
        /\ Arrives(r, actor)
        /\ ~isAdmin(actor)
        /\ Respond(r, actor, route, id, 403)
        /\ UNCHANGED <<users, creditTransactions>>

\* ------------------------------------- POST /api/users/:id/credits (ledger)

\* typeof amount !== "number": 400 before the ledger is called.
CreditsBadAmount(r) ==
    \E actor \in DOMAIN users, id \in UserIds :
        /\ Arrives(r, actor)
        /\ isAdmin(actor)
        /\ Respond(r, actor, "credits", id, 400)
        /\ UNCHANGED <<users, creditTransactions>>

\* updateUserCredits treating creditLimit as a hard cap: a new balance above
\* the limit is refused with 400.
CreditsGetUserEnforcesLimit(r) ==
    \E actor \in DOMAIN users, id \in UserIds, amount \in Amounts :
        /\ Arrives(r, actor)
        /\ isAdmin(actor)
        /\ IF getUser(id) = {}
           THEN req' = [req EXCEPT ![r] =
                    [Response(actor, "credits", id, 500, "User not found")
                        EXCEPT !.amount = amount]]
           ELSE IF NewBalance(Credits(getUser(id)), amount) > users[id].creditLimit
           THEN Respond(r, actor, "credits", id, 400)
           ELSE req' = [req EXCEPT ![r] =
                    [IdleReq EXCEPT !.route = "credits", !.pc = "update",
                                    !.actor = actor, !.id = id, !.amount = amount,
                                    !.read = Credits(getUser(id)),
                                    !.newBalance =
                                        NewBalance(Credits(getUser(id)), amount)]]
        /\ UNCHANGED <<users, creditTransactions>>

\* updateUserCredits, first statement: const user = await this.getUser(userId).
\* An unknown id throws "User not found", which the route answers with 500.
CreditsGetUser(r) ==
    \E actor \in DOMAIN users, id \in UserIds, amount \in Amounts :
        /\ Arrives(r, actor)
        /\ isAdmin(actor)
        /\ IF getUser(id) = {}    \* if (!user) throw new Error("User not found")
           THEN req' = [req EXCEPT ![r] =
                    [Response(actor, "credits", id, 500, "User not found")
                        EXCEPT !.amount = amount]]
           ELSE req' = [req EXCEPT ![r] =
                    [IdleReq EXCEPT !.route = "credits", !.pc = "update",
                                    !.actor = actor, !.id = id, !.amount = amount,
                                    !.read = Credits(getUser(id)),
                                    !.newBalance =
                                        NewBalance(Credits(getUser(id)), amount)]]
        /\ UNCHANGED <<users, creditTransactions>>

\* updateUserCredits, second statement: UPDATE users SET credits = newBalance.
CreditsUpdate(r) ==
    /\ req[r].route = "credits"
    /\ req[r].pc = "update"
    /\ users' = SetColumns(req[r].id, [credits |-> req[r].newBalance,
                                      updatedAt |-> now])
    /\ req' = [req EXCEPT ![r].pc = "insert"]
    /\ UNCHANGED creditTransactions

\* updateUserCredits, third statement: INSERT INTO credit_transactions; then
\* the route answers 200 with the updated user.
CreditsInsert(r) ==
    /\ req[r].route = "credits"
    /\ req[r].pc = "insert"
    /\ creditTransactions' =
           Append(creditTransactions,
                  TransactionRow(req[r].id, req[r].amount, req[r].read,
                                 req[r].newBalance, req[r].actor))
    /\ req' = [req EXCEPT ![r] =
                  [Response(req[r].actor, "credits", req[r].id, 200, "none")
                      EXCEPT !.amount = req[r].amount]]
    /\ UNCHANGED users

\* An awaited statement rejects (connection lost, server restarted): the
\* exception reaches the route's catch, which answers 500.  Nothing is undone.
CreditsDbError(r) ==
    /\ req[r].route = "credits"
    /\ req[r].pc \in {"update", "insert"}
    /\ req' = [req EXCEPT ![r] =
                  [Response(req[r].actor, "credits", req[r].id, 500, "db")
                      EXCEPT !.amount = req[r].amount]]
    /\ UNCHANGED <<users, creditTransactions>>

\* ----------------------------------------------- POST /api/users (create)

\* The id gen_random_uuid() gives the next row: one no row has.
FreshId == CHOOSE i \in UserIds \ DOMAIN users :
               \A j \in UserIds \ DOMAIN users : i <= j

\* Bodies createUserSchema accepts: email, password, both names, a role, and
\* optionally credits (any number).  Password and names are the same in all.
CreatePayloads ==
    {[email |-> e, role |-> ro] : e \in Emails, ro \in Roles} \cup
    {[email |-> e, role |-> ro, credits |-> c] :
        e \in Emails, ro \in Roles, c \in CreateCredits}

\* The message of the 400 that answers a taken email ("Email ja cadastrado",
\* with an acute accent on the a).
EmailAlreadyRegistered == "Email ja cadastrado"

\* createUserSchema.parse rejects the body (a short password, a bad email): 400.
CreateInvalid(r) ==
    \E actor \in DOMAIN users :
        /\ Arrives(r, actor)
        /\ isAdmin(actor)
        /\ Respond(r, actor, "createUser", 0, 400)
        /\ UNCHANGED <<users, creditTransactions>>

\* const existingUser = await storage.getUserByEmail(userData.email): a taken
\* email is answered 400 "Email ja cadastrado"; otherwise the insert follows.
CreateCheckEmail(r) ==
    \E actor \in DOMAIN users, userData \in CreatePayloads :
        /\ Arrives(r, actor)
        /\ isAdmin(actor)
        /\ IF getUserByEmail(userData.email) # {}
           THEN req' = [req EXCEPT ![r] =
                    [Response(actor, "createUser", 0, 400, "none")
                        EXCEPT !.data = userData,
                               !.message = EmailAlreadyRegistered]]
           ELSE req' = [req EXCEPT ![r] =
                    [IdleReq EXCEPT !.route = "createUser", !.pc = "insertUser",
                                    !.actor = actor, !.data = userData]]
        /\ UNCHANGED <<users, creditTransactions>>

\* storage.createUser: INSERT INTO users; a column the body does not give takes
\* its default.  The unique index on email rejects a duplicate: 500.
CreateInsert(r) ==
    /\ req[r].route = "createUser"
    /\ req[r].pc = "insertUser"
    /\ LET d == req[r].data IN
       IF getUserByEmail(d.email) # {}
       THEN /\ req' = [req EXCEPT ![r] =
                           Response(req[r].actor, "createUser", 0, 500, "db")]
            /\ UNCHANGED users
       ELSE /\ UserIds \ DOMAIN users # {}
            /\ users' = users @@
                   (FreshId :> UserRow(d.email, hashPassword("p1"), "n1", "n1",
                                       d.role,
                                       IF "credits" \in DOMAIN d
                                       THEN d.credits ELSE DefaultCredits))
            /\ req' = [req EXCEPT ![r] =
                           Response(req[r].actor, "createUser", FreshId, 201, "none")]
    /\ UNCHANGED creditTransactions

\* ------------------------------------------- PUT /api/users/:id (admin update)

\* Bodies updateUserSchema accepts: any subset of the columns but id, password
\* and the timestamps, each checked for its type only.
UpdatePayloads ==
    {NoData} \cup
    {[credits |-> c] : c \in {-5, 7}} \cup
    {[creditLimit |-> l] : l \in Limits} \cup
    {[status |-> s] : s \in Statuses} \cup
    {[role |-> ro] : ro \in Roles} \cup
    {[email |-> e] : e \in Emails} \cup
    {[firstName |-> "n2", lastName |-> "n2"], [firstName |-> "n2"]}

\* updateUserSchema.parse rejects the body (role: "root", credits: "x"): 400.
UpdateUserInvalid(r) ==
    \E actor \in DOMAIN users, id \in UserIds :
        /\ Arrives(r, actor)
        /\ isAdmin(actor)
        /\ RespondTo(r, actor, "updateUser", id, [role |-> "root"], 400)
        /\ UNCHANGED <<users, creditTransactions>>

\* storage.updateUser(id, userData): UPDATE users SET ...userData WHERE id.
updateUser(id, data) == SetColumns(id, [updatedAt |-> now] @@ data)

UpdateUser(r) ==
    \E actor \in DOMAIN users, id \in UserIds, data \in UpdatePayloads :
        /\ Arrives(r, actor)
        /\ isAdmin(actor)
        /\ IF EmailTaken(id, data)
           THEN /\ RespondTo(r, actor, "updateUser", id, data, 500)
                /\ UNCHANGED users
           ELSE /\ users' = updateUser(id, data)
                /\ RespondTo(r, actor, "updateUser", id, data, 200)
        /\ UNCHANGED creditTransactions

\* --------------------------------- PATCH /api/users/:id/credit-limit (setLimit)

\* storage.updateUserCreditLimit(userId, limit)
updateUserCreditLimit(id, limit) ==
    SetColumns(id, [creditLimit |-> limit, updatedAt |-> now])

\* The route without its limit < 0 test: every number is stored.
SetLimitAnyNumber(r) ==
    \E actor \in DOMAIN users, id \in UserIds, limit \in Limits :
        /\ Arrives(r, actor)
        /\ isAdmin(actor)
        /\ users' = updateUserCreditLimit(id, limit)
        /\ RespondTo(r, actor, "creditLimit", id, [limit |-> limit], 200)
        /\ UNCHANGED creditTransactions

\* typeof limit !== "number" || limit < 0 is answered 400.
SetLimit(r) ==
    \E actor \in DOMAIN users, id \in UserIds, limit \in Limits :
        /\ Arrives(r, actor)
        /\ isAdmin(actor)
        /\ IF limit < 0
           THEN /\ RespondTo(r, actor, "creditLimit", id, [limit |-> limit], 400)
                /\ UNCHANGED users
           ELSE /\ users' = updateUserCreditLimit(id, limit)
                /\ RespondTo(r, actor, "creditLimit", id, [limit |-> limit], 200)
        /\ UNCHANGED creditTransactions

\* ------------------------------------ POST /api/users/:id/block and /unblock

\* { ...user, password: undefined } as JSON: the row without its password.
Sanitized(user) == [c \in DOMAIN user \ {"password"} |-> user[c]]

\* res.json({ ...user, password: undefined }) of the row an UPDATE ...
\* RETURNING gave back in table; {} when it matched no row.
ReturnedUser(table, id) ==
    IF id \in DOMAIN table THEN Sanitized(table[id]) ELSE NoData

\* An unblock that flips the status instead of setting it.
unblockUserFlips(id) ==
    SetColumns(id, [status |-> IF id \in DOMAIN users
                                  /\ users[id].status = "active"
                               THEN "blocked" ELSE "active",
                    updatedAt |-> now])

\* A block that also takes the user's credits away.
blockUserClearsCredits(id) ==
    SetColumns(id, [status |-> "blocked", credits |-> 0, updatedAt |-> now])

\* A block whose UPDATE has no WHERE: every row is blocked.
blockUserNoWhere(id) ==
    [i \in DOMAIN users |->
        [users[i] EXCEPT !.status = "blocked", !.updatedAt = now]]

\* storage.blockUser(userId)
blockUser(id) == SetColumns(id, [status |-> "blocked", updatedAt |-> now])

\* storage.unblockUser(userId)
unblockUser(id) == SetColumns(id, [status |-> "active", updatedAt |-> now])

Block(r) ==
    \E actor \in DOMAIN users, id \in UserIds :
        /\ Arrives(r, actor)
        /\ isAdmin(actor)
        /\ users' = blockUser(id)
        /\ req' = [req EXCEPT ![r] =
                      [Response(actor, "block", id, 200, "none") EXCEPT
                          !.body = ReturnedUser(blockUser(id), id)]]
        /\ UNCHANGED creditTransactions

Unblock(r) ==
    \E actor \in DOMAIN users, id \in UserIds :
        /\ Arrives(r, actor)
        /\ isAdmin(actor)
        /\ users' = unblockUser(id)
        /\ req' = [req EXCEPT ![r] =
                      [Response(actor, "unblock", id, 200, "none") EXCEPT
                          !.body = ReturnedUser(unblockUser(id), id)]]
        /\ UNCHANGED creditTransactions

\* ------------------------------------ PUT /api/user/profile and /password

\* The session's own profile: both names are required (!firstName || !lastName
\* is answered 400); only the two names are handed to storage.updateUser.
\* The bodies sent to it: any subset of the two names.
ProfileBodies ==
    {NoData} \cup
    {[firstName |-> f] : f \in Names} \cup
    {[lastName |-> l] : l \in Names} \cup
    {[firstName |-> f, lastName |-> l] : f \in Names, l \in Names}

Profile(r) ==
    \E actor \in DOMAIN users, body \in ProfileBodies :
        /\ Arrives(r, actor)
        /\ IF "firstName" \notin DOMAIN body \/ "lastName" \notin DOMAIN body
           THEN /\ RespondTo(r, actor, "profile", actor, body, 400)
                /\ UNCHANGED users
           ELSE /\ users' = updateUser(actor, [firstName |-> body.firstName,
                                               lastName |-> body.lastName])
                /\ RespondTo(r, actor, "profile", actor, body, 200)
        /\ UNCHANGED creditTransactions

\* storage.updateUserPassword(id, hashedPassword)
updateUserPassword(id, hashed) ==
    SetColumns(id, [password |-> hashed, updatedAt |-> now])

\* The session's own password: both fields required, the current password
\* must match the stored hash (400 otherwise), then the new hash is stored.
Password(r) ==
    \E actor \in DOMAIN users, currentPassword \in Passwords \cup {""},
       newPassword \in Passwords \cup {""} :
        /\ Arrives(r, actor)
        /\ IF \/ currentPassword = "" \/ newPassword = ""
              \/ ~comparePasswords(currentPassword, users[actor].password)
           THEN /\ Respond(r, actor, "password", actor, 400)
                /\ UNCHANGED users
           ELSE /\ users' = updateUserPassword(actor, hashPassword(newPassword))
                /\ Respond(r, actor, "password", actor, 200)
        /\ UNCHANGED creditTransactions

\* ------------------------------------------------- GET routes of the admin

\* storage.getRegularUsers(): the rows with role regular.
getRegularUsers == {i \in DOMAIN users : users[i].role = "regular"}

\* GET /api/users
ListUsers(r) ==
    \E actor \in DOMAIN users :
        /\ Arrives(r, actor)
        /\ isAdmin(actor)
        /\ req' = [req EXCEPT ![r] =
                      [Response(actor, "listUsers", 0, 200, "none") EXCEPT
                          !.body = [i \in getRegularUsers |->
                                       Sanitized(users[i])]]]
        /\ UNCHANGED <<users, creditTransactions>>

RECURSIVE SumCredits(_, _)
\* sum(credits) over the rows ids of table; NULL, read as 0, over no row.
SumCredits(table, ids) ==
    IF ids = {} THEN 0
    ELSE LET i == CHOOSE j \in ids : TRUE
         IN  table[i].credits + SumCredits(table, ids \ {i})

\* The aggregate without its WHERE role = 'regular'.
StatsOfAllRoles(table) ==
    [totalUsers |-> Cardinality(DOMAIN table),
     activeUsers |->
         Cardinality({i \in DOMAIN table : table[i].status = "active"}),
     blockedUsers |->
         Cardinality({i \in DOMAIN table : table[i].status = "blocked"}),
     totalCredits |-> SumCredits(table, DOMAIN table)]

\* The aggregate of getUserStats over a users table: count(*), the two
\* filtered counts and sum(credits), WHERE role = 'regular'.
StatsOf(table) ==
    LET regular == {i \in DOMAIN table : table[i].role = "regular"}
    IN  [totalUsers |-> Cardinality(regular),
         activeUsers |->
             Cardinality({i \in regular : table[i].status = "active"}),
         blockedUsers |->
             Cardinality({i \in regular : table[i].status = "blocked"}),
         totalCredits |-> SumCredits(table, regular)]

\* storage.getUserStats()
getUserStats == StatsOf(users)

\* GET /api/users/stats
Stats(r) ==
    \E actor \in DOMAIN users :
        /\ Arrives(r, actor)
        /\ isAdmin(actor)
        /\ req' = [req EXCEPT ![r] =
                      [Response(actor, "stats", 0, 200, "none") EXCEPT
                          !.body = getUserStats]]
        /\ UNCHANGED <<users, creditTransactions>>

\* storage.getCreditTransactions(userId): the rows of userId ORDER BY
\* created_at DESC.  Rows of equal createdAt come in an order the query does
\* not fix: every result the database may give.
getCreditTransactions(userId) ==
    LET rows == {i \in 1..Len(creditTransactions) :
                    creditTransactions[i].userId = userId}
        n == Cardinality(rows)
        orders == {f \in [1..n -> rows] :
                      /\ \A j, k \in 1..n : j # k => f[j] # f[k]
                      /\ \A j, k \in 1..n : j < k =>
                             creditTransactions[f[j]].createdAt
                                 >= creditTransactions[f[k]].createdAt}
    IN  {[k \in 1..n |-> creditTransactions[f[k]]] : f \in orders}

\* GET /api/users/:id/credit-transactions
History(r) ==
    \E actor \in DOMAIN users, id \in UserIds :
        /\ Arrives(r, actor)
        /\ isAdmin(actor)
        /\ \E transactions \in getCreditTransactions(id) :
               req' = [req EXCEPT ![r] =
                          [Response(actor, "transactions", id, 200, "none")
                              EXCEPT !.body = transactions]]
        /\ UNCHANGED <<users, creditTransactions>>

\* One step of the handler of request r.
Step(r) ==
    \/ Forbidden(r)
    \/ CreateInvalid(r)
    \/ CreateCheckEmail(r)
    \/ CreateInsert(r)
    \/ UpdateUserInvalid(r)
    \/ UpdateUser(r)
    \/ CreditsBadAmount(r)
    \/ CreditsGetUser(r)
    \/ CreditsUpdate(r)
    \/ CreditsInsert(r)
    \/ CreditsDbError(r)
    \/ SetLimit(r)
    \/ Block(r)
    \/ Unblock(r)
    \/ Profile(r)
    \/ Password(r)
    \/ ListUsers(r)
    \/ Stats(r)
    \/ History(r)

\* A handler step takes no time of its own. A response is delivered before
\* the server takes its next step: delivery touches nothing the server reads.
Handle(r) == Delivered /\ Step(r) /\ now' = now /\ UNCHANGED pageVars

\* res.json / res.status().json: the response leaves the server, which keeps
\* nothing of the request.
Close(r) ==
    /\ req[r].pc = "done"
    /\ req' = [req EXCEPT ![r] = ClosedReq]
    /\ UNCHANGED <<users, creditTransactions, now>>
    /\ UNCHANGED pageVars

\* Time passes. The clock is read only into stamps (updatedAt, createdAt), so
\* an instant is left only after something was stamped with it.
Tick ==
    /\ Delivered
    /\ now < MaxClock
    /\ \/ \E u \in DOMAIN users : users[u].updatedAt = now
       \/ \E i \in 1..Len(creditTransactions) :
              creditTransactions[i].createdAt = now
    /\ now' = now + 1
    /\ UNCHANGED <<users, creditTransactions, req>>
    /\ UNCHANGED pageVars

\* The server: the handlers of all requests, their awaited statements
\* interleaved in any order.
Next ==
    \/ Tick
    \/ \E r \in Reqs : Handle(r)
    \/ \E r \in Reqs : Close(r)

Spec == Init /\ [][Next]_vars

\* No other request is between two of its statements.
Alone(r) == \A q \in Reqs \ {r} : req[q].pc \in {"idle", "done", "closed"}

\* The server handling one request at a time: the contract of a single call.
NextSeq ==
    \/ Tick
    \/ \E r \in Reqs : Alone(r) /\ Handle(r)
    \/ \E r \in Reqs : Close(r)

SeqSpec == Init /\ [][NextSeq]_vars

\* ------------------------------------- registerRoutes of server/routes.ts

\* res.json(user) of the row a statement gave back in table: the whole row;
\* an empty body when it gave back none.
JsonUser(table, id) == IF id \in DOMAIN table THEN table[id] ELSE NoData

\* The routes of server/routes.ts registered with its isAdmin middleware
\* that answer with user rows.
RoutesAdminRoutes ==
    {"listUsers", "updateUser", "creditLimit", "block", "unblock"}

\* isAdmin of server/routes.ts: 403 unless the stored role is admin.
RoutesForbidden(r) ==
    \E actor \in DOMAIN users, id \in UserIds, route \in RoutesAdminRoutes :
        /\ Arrives(r, actor)
        /\ ~isAdmin(actor)
        /\ Respond(r, actor, route, id, 403)
        /\ UNCHANGED <<users, creditTransactions>>

\* GET /api/auth/user
RoutesAuthUser(r) ==
    \E actor \in DOMAIN users :
        /\ Arrives(r, actor)
        /\ req' = [req EXCEPT ![r] =
                      [Response(actor, "authUser", actor, 200, "none") EXCEPT
                          !.body = JsonUser(users, actor)]]
        /\ UNCHANGED <<users, creditTransactions>>

\* GET /api/users
RoutesListUsers(r) ==
    \E actor \in DOMAIN users :
        /\ Arrives(r, actor)
        /\ isAdmin(actor)
        /\ req' = [req EXCEPT ![r] =
                      [Response(actor, "listUsers", 0, 200, "none") EXCEPT
                          !.body = [i \in getRegularUsers |-> users[i]]]]
        /\ UNCHANGED <<users, creditTransactions>>

\* PATCH /api/users/:id
RoutesUpdateUser(r) ==
    \E actor \in DOMAIN users, id \in UserIds, data \in UpdatePayloads :
        /\ Arrives(r, actor)
        /\ isAdmin(actor)
        /\ IF EmailTaken(id, data)
           THEN /\ RespondTo(r, actor, "updateUser", id, data, 500)
                /\ UNCHANGED users
           ELSE /\ users' = updateUser(id, data)
                /\ req' = [req EXCEPT ![r] =
                              [Response(actor, "updateUser", id, 200, "none")
                                  EXCEPT !.data = data,
                                         !.body = JsonUser(updateUser(id, data),
                                                           id)]]
        /\ UNCHANGED creditTransactions

\* PATCH /api/users/:id/credit-limit
RoutesCreditLimit(r) ==
    \E actor \in DOMAIN users, id \in UserIds, limit \in Limits :
        /\ Arrives(r, actor)
        /\ isAdmin(actor)
        /\ IF limit < 0
           THEN /\ RespondTo(r, actor, "creditLimit", id, [limit |-> limit], 400)
                /\ UNCHANGED users
           ELSE /\ users' = updateUserCreditLimit(id, limit)
                /\ req' = [req EXCEPT ![r] =
                              [Response(actor, "creditLimit", id, 200, "none")
                                  EXCEPT !.data = [limit |-> limit],
                                         !.body =
                                             JsonUser(
                                                 updateUserCreditLimit(id, limit),
                                                 id)]]
        /\ UNCHANGED creditTransactions

\* POST /api/users/:id/block
RoutesBlock(r) ==
    \E actor \in DOMAIN users, id \in UserIds :
        /\ Arrives(r, actor)
        /\ isAdmin(actor)
        /\ users' = blockUser(id)
        /\ req' = [req EXCEPT ![r] =
                      [Response(actor, "block", id, 200, "none") EXCEPT
                          !.body = JsonUser(blockUser(id), id)]]
        /\ UNCHANGED creditTransactions

\* POST /api/users/:id/unblock
RoutesUnblock(r) ==
    \E actor \in DOMAIN users, id \in UserIds :
        /\ Arrives(r, actor)
        /\ isAdmin(actor)
        /\ users' = unblockUser(id)
        /\ req' = [req EXCEPT ![r] =
                      [Response(actor, "unblock", id, 200, "none") EXCEPT
                          !.body = JsonUser(unblockUser(id), id)]]
        /\ UNCHANGED creditTransactions

\* One handler of server/routes.ts answering request r.
RoutesHandle(r) ==
    /\ Delivered
    /\ \/ RoutesForbidden(r)
       \/ RoutesAuthUser(r)
       \/ RoutesListUsers(r)
       \/ RoutesUpdateUser(r)
       \/ RoutesCreditLimit(r)
       \/ RoutesBlock(r)
       \/ RoutesUnblock(r)
    /\ now' = now
    /\ UNCHANGED pageVars

\* The server built from server/routes.ts over the same storage layer.
NextRoutes ==
    \/ Tick
    \/ \E r \in Reqs : RoutesHandle(r)
    \/ \E r \in Reqs : Close(r)

RoutesSpec == Init /\ [][NextRoutes]_vars

\* ------------------------------------------------------- table searches

\* Values of type InsertSearch (less userId): insertSearchSchema omits id
\* and createdAt only, so finalizado is an optional field of it.
\* searchId, address and segment are carried along untouched and left out.
SearchPayloads ==
    {[creditsUsed |-> DefaultSearchCost]} \cup
    {[creditsUsed |-> DefaultSearchCost, finalizado |-> f] : f \in BOOLEAN}

\* storage.createSearch(searchData): INSERT INTO searches VALUES (searchData);
\* a column the data does not give takes its default (finalizado false,
\* createdAt now()).
createSearch(searchData) ==
    Append(searches,
           [id |-> Len(searches) + 1,
            userId |-> searchData.userId,
            creditsUsed |-> searchData.creditsUsed,
            finalizado |-> IF "finalizado" \in DOMAIN searchData
                           THEN searchData.finalizado ELSE FALSE,
            createdAt |-> now])

\* storage.getUserSearches(userId): the user's rows ORDER BY createdAt DESC
\* (rows of one instant in the reverse of their insertion order).
getUserSearches(userId) ==
    LET own == SelectSeq(searches, LAMBDA row : row.userId = userId)
    IN  [k \in 1..Len(own) |-> own[Len(own) + 1 - k]]

\* A search is recorded: storage.createSearch is called for user u with data
\* of type InsertSearch.
RecordSearch ==
    \E u \in DOMAIN users, data \in SearchPayloads :
        /\ Len(searches) < MaxSearches
        /\ searches' = createSearch([userId |-> u] @@ data)
        /\ UNCHANGED <<users, creditTransactions, req, now, searchCost, client,
                       provider, modal>>

\* markFinalized(searchId): the provider reports a search complete.
markFinalized ==
    \E i \in 1..Len(searches) :
        /\ ~searches[i].finalizado
        /\ searches' = [searches EXCEPT ![i].finalizado = TRUE]
        /\ UNCHANGED <<users, creditTransactions, req, now, searchCost, client,
                       provider, modal>>

\* storage.setSystemSetting("search_cost", value), as the settings page of an
\* admin posts it.
SearchCosts == {5, 20}

SetSearchCost ==
    \E cost \in SearchCosts :
        /\ searchCost # cost
        /\ searchCost' = cost
        /\ UNCHANGED <<users, creditTransactions, req, now, searches, client,
                       provider, modal>>

\* ------------------------------------------------- the home page (client)

\* The cooldown of the status refresh, in milliseconds.
Cooldown == 30000
\* (1000 * 60 * 60): the milliseconds of an hour.
MsPerHour == 1000 * 60 * 60
\* The hours after which an unfinished search is taken for expired.
ExpiryHours == 6

\* Date.now() when the clock of the model reads 0: any instant later than
\* the cooldown after 1970.
Epoch == Cooldown

\* Date.now()
DateNow == Epoch + now

\* new Date(search.createdAt).getTime()
getTime(createdAt) == Epoch + createdAt

\* hoursDiff > 6, with hoursDiff = (now - searchDate.getTime()) / MsPerHour.
isOldSearch(search) ==
    DateNow - getTime(search.createdAt) > ExpiryHours * MsPerHour

\* The badge of a search in the history list.
Badge(search) ==
    IF search.finalizado THEN "Finalizada"
    ELSE IF isOldSearch(search) THEN "Expirada"
    ELSE "Processando"

\* The searches the page holds: the cached answer of /api/searches.
CachedSearches == {client.searches[k] : k \in 1..Len(client.searches)}

\* A refresh filter that forgets the flag: every recent search is asked.
unfinishedSearchesAnyFlag ==
    {search.id : search \in {s \in CachedSearches : ~isOldSearch(s)}}

\* unfinishedSearches of updateSearchStatuses: the ids of the cached searches
\* with finalizado false and hoursDiff <= 6.
unfinishedSearches ==
    {search.id : search \in {s \in CachedSearches :
                                ~s.finalizado /\ ~isOldSearch(s)}}

\* The router shows the home page: a session whose cached user is not blocked.
OnHomePage == client.id # 0 /\ client.user.status # "blocked"

\* The page is opened by the session of user u: useAuth fetches /api/user.
OpenPage ==
    \E u \in DOMAIN users :
        /\ client.id = 0
        /\ client' = [HomePage EXCEPT !.id = u, !.user = Sanitized(users[u])]
        /\ UNCHANGED <<users, creditTransactions, req, now, searches,
                       searchCost, provider, modal>>

\* The query /api/user is fetched again (after an invalidation).
FetchUser ==
    /\ client.id \in DOMAIN users
    /\ client' = [client EXCEPT !.user = Sanitized(users[client.id])]
    /\ UNCHANGED <<users, creditTransactions, req, now, searches, searchCost,
                   provider, modal>>

\* The query /api/settings/search-cost answers.
FetchSearchCost ==
    /\ client.id # 0
    /\ client' = [client EXCEPT !.searchCost = searchCost]
    /\ UNCHANGED <<users, creditTransactions, req, now, searches, searchCost,
                   provider, modal>>

\* The query /api/searches answers.
FetchSearches ==
    /\ client.id # 0
    /\ client' = [client EXCEPT !.searches = getUserSearches(client.id)]
    /\ UNCHANGED <<users, creditTransactions, req, now, searches, searchCost,
                   provider, modal>>

\* updateSearchStatuses with its cooldown test removed.
updateSearchStatusesNoCooldown ==
    /\ OnHomePage
    /\ ~client.isUpdatingStatus
    /\ Len(provider) < MaxCalls
    /\ IF unfinishedSearches = {}
       THEN /\ client' = [client EXCEPT !.toast = "none pending"]
            /\ UNCHANGED provider
       ELSE /\ client' = [client EXCEPT !.isUpdatingStatus = TRUE,
                                        !.lastStatusUpdate = DateNow]
            /\ provider' = Append(provider,
                                  [kind |-> "status", at |-> DateNow,
                                   ids |-> unfinishedSearches])
    /\ UNCHANGED <<users, creditTransactions, req, now, searches, searchCost,
                   modal>>

\* updateSearchStatuses: a click on the refresh button (disabled while a
\* refresh is running).  Refused within 30 s of the last request and when no
\* cached search is pending; otherwise the cooldown restarts and the status
\* request leaves for the provider.
updateSearchStatuses ==
    /\ OnHomePage
    /\ ~client.isUpdatingStatus
    /\ Len(provider) < MaxCalls
    /\ IF DateNow - client.lastStatusUpdate < Cooldown
       THEN /\ client' = [client EXCEPT !.toast = "wait"]
            /\ UNCHANGED provider
       ELSE IF unfinishedSearches = {}
       THEN /\ client' = [client EXCEPT !.toast = "none pending"]
            /\ UNCHANGED provider
       ELSE /\ client' = [client EXCEPT !.isUpdatingStatus = TRUE,
                                        !.lastStatusUpdate = DateNow]
            /\ provider' = Append(provider,
                                  [kind |-> "status", at |-> DateNow,
                                   ids |-> unfinishedSearches])
    /\ UNCHANGED <<users, creditTransactions, req, now, searches, searchCost,
                   modal>>

\* The provider answers the status request (response.ok or not): a toast,
\* and setIsUpdatingStatus(false) in the finally block.
StatusAnswers ==
    \E ok \in BOOLEAN :
        /\ client.isUpdatingStatus
        /\ client' = [client EXCEPT !.isUpdatingStatus = FALSE,
                                    !.toast = IF ok THEN "updated" ELSE "error"]
        /\ UNCHANGED <<users, creditTransactions, req, now, searches,
                       searchCost, provider, modal>>

\* Waits between two clicks: half a cooldown, and the expiry window.
Delays == {Cooldown \div 2, ExpiryHours * MsPerHour}

\* Time passes at the browser.  A wait shorter than the cooldown is taken
\* while a cooldown runs, the long wait once.
Wait ==
    \E d \in Delays :
        /\ ~client.isUpdatingStatus
        /\ IF d < Cooldown
           THEN DateNow - client.lastStatusUpdate < Cooldown
           ELSE now < ExpiryHours * MsPerHour
        /\ now' = now + d
        /\ UNCHANGED <<users, creditTransactions, req, searches, searchCost,
                       client, provider, modal>>

\* The history and its refresh: searches are recorded and finalized, the
\* page caches them, the user clicks refresh, time passes.
NextRefresh ==
    \/ OpenPage
    \/ RecordSearch
    \/ markFinalized
    \/ FetchSearches
    \/ updateSearchStatuses
    \/ StatusAnswers
    \/ Wait

RefreshSpec == Init /\ [][NextRefresh]_vars

\* ------------------------------------------- the search form (home page)

\* disabled of the submit button.
SubmitDisabled ==
    client.isPending \/ client.user.credits < client.searchCost

\* The form is submitted: searchMutation.mutationFn up to its first await.
\* With too few credits in the cached user record of a user who is no admin
\* it throws; otherwise the search request leaves for the provider.  The
\* creditsUsed it will record is fixed here, from the cached role and cost.
SubmitSearch ==
    /\ OnHomePage
    /\ ~SubmitDisabled
    /\ Len(provider) < MaxCalls
    /\ Len(searches) < MaxSearches
    /\ IF client.user.role # "admin" /\ client.user.credits < client.searchCost
       THEN /\ client' = [client EXCEPT !.toast = "insufficient"]
            /\ UNCHANGED provider
       ELSE /\ client' = [client EXCEPT
                             !.isPending = TRUE,
                             !.creditsUsed = IF client.user.role = "admin"
                                             THEN 0 ELSE client.searchCost]
            /\ provider' = Append(provider,
                                  [kind |-> "search", at |-> DateNow,
                                   ids |-> {}])
    /\ UNCHANGED <<users, creditTransactions, req, now, searches, searchCost,
                   modal>>

\* The provider answers the search request: not ok (the mutation throws), ok
\* without success (nothing is recorded), or success: POST /api/searches
\* records the search for the session's user.
SearchAnswers ==
    \E answer \in {"failed", "unsuccessful", "success"} :
        /\ client.isPending
        /\ IF answer = "success"
           THEN /\ searches' = createSearch([userId |-> client.id,
                                            creditsUsed |-> client.creditsUsed])
                /\ client' = [client EXCEPT !.isPending = FALSE,
                                            !.toast = "started"]
           ELSE /\ client' = [client EXCEPT !.isPending = FALSE,
                                            !.toast = "error"]
                /\ UNCHANGED searches
        /\ UNCHANGED <<users, creditTransactions, req, now, searchCost,
                       provider, modal>>

\* The admin console meanwhile: users are created and their credits
\* adjusted, one request at a time.
AdminRequest ==
    \E r \in Reqs :
        /\ Alone(r)
        /\ Handle(r)
        /\ req'[r].route \in {"createUser", "credits"}

\* Searching: a user opens the page and submits searches while an admin
\* creates users, adjusts credits and sets the search cost.
NextSubmit ==
    \/ OpenPage
    \/ FetchUser
    \/ FetchSearchCost
    \/ SetSearchCost
    \/ SubmitSearch
    \/ SearchAnswers
    \/ AdminRequest
    \/ \E r \in Reqs : Close(r)

SubmitSpec == Init /\ [][NextSubmit]_vars

\* ------------------------------------------------------ the credit modal

\* What the two number inputs can hold: "", "0", "50", "-1", ".5e1".
FieldValues ==
    {<<>>, <<"0">>, <<"5", "0">>, <<"-", "1">>, <<".", "5", "e", "1">>}

\* The value of a decimal digit.
DigitValue ==
    [c \in {"0", "1", "2", "3", "4", "5", "6", "7", "8", "9"} |->
        CASE c = "0" -> 0 [] c = "1" -> 1 [] c = "2" -> 2 [] c = "3" -> 3
          [] c = "4" -> 4 [] c = "5" -> 5 [] c = "6" -> 6 [] c = "7" -> 7
          [] c = "8" -> 8 [] c = "9" -> 9]

RECURSIVE ParseDigits(_, _)
\* The number read from the leading digits of chars, after acc.
ParseDigits(chars, acc) ==
    IF chars = <<>> \/ Head(chars) \notin DOMAIN DigitValue THEN acc
    ELSE ParseDigits(Tail(chars), acc * 10 + DigitValue[Head(chars)])

\* parseInt(string): an optional sign, then the leading digits, whatever
\* follows them; NaN (no value) when no digit follows the sign.
parseInt(chars) ==
    LET signed == chars # <<>> /\ Head(chars) \in {"-", "+"}
        digits == IF signed THEN Tail(chars) ELSE chars
    IN  IF digits = <<>> \/ Head(digits) \notin DOMAIN DigitValue THEN {}
        ELSE IF Head(chars) = "-" THEN {0 - ParseDigits(digits, 0)}
        ELSE {ParseDigits(digits, 0)}

isNaN(parsed) == parsed = {}

\* The number parseInt gave.
Parsed(parsed) == CHOOSE n \in parsed : TRUE

\* min="0" of the limit input: the browser holds back the submit event of a
\* form whose limit is below 0 (of the values above, the one with a sign).
rangeUnderflow(chars) == chars # <<>> /\ Head(chars) = "-"

\* onChange of the two inputs.
TypeAmount ==
    \E value \in FieldValues :
        /\ modal.creditAmount # value
        /\ modal' = [modal EXCEPT !.creditAmount = value]
        /\ UNCHANGED <<users, creditTransactions, req, now, searches,
                       searchCost, client, provider>>

TypeLimit ==
    \E value \in FieldValues :
        /\ modal.creditLimit # value
        /\ modal' = [modal EXCEPT !.creditLimit = value]
        /\ UNCHANGED <<users, creditTransactions, req, now, searches,
                       searchCost, client, provider>>

\* handleClose: the fields are cleared.
handleClose ==
    /\ modal.creditAmount # <<>> \/ modal.creditLimit # <<>>
    /\ modal' = [modal EXCEPT !.creditAmount = <<>>, !.creditLimit = <<>>]
    /\ UNCHANGED <<users, creditTransactions, req, now, searches, searchCost,
                   client, provider>>

\* The request updateCreditsMutation.mutateAsync issues.
CreditsRequest(amount) == [route |-> "credits", value |-> amount]

\* The request updateCreditLimitMutation.mutateAsync issues.
LimitRequest(limit) == [route |-> "creditLimit", value |-> limit]

\* handleSubmit: the amount is parsed and its request issued (mutateAsync is
\* called as it is pushed on promises), then the limit is parsed and its
\* request issued; an invalid field ends the handler where it is found.
handleSubmit ==
    LET amount == parseInt(modal.creditAmount)
        limit == parseInt(modal.creditLimit)
        hasAmount == modal.creditAmount # <<>> /\ modal.creditAmount # <<"0">>
        hasLimit == modal.creditLimit # <<>>
        promises == IF hasAmount /\ ~isNaN(amount)
                    THEN <<CreditsRequest(Parsed(amount))>> ELSE <<>>
    IN  /\ ~rangeUnderflow(modal.creditLimit)
        /\ Len(modal.issued) < MaxIssued
        /\ IF hasAmount /\ isNaN(amount)
           THEN modal' = [modal EXCEPT !.toast = "invalid credits"]
           ELSE IF hasLimit /\ (isNaN(limit) \/ Parsed(limit) < 0)
           THEN modal' = [modal EXCEPT !.issued = modal.issued \o promises,
                                       !.toast = "invalid limit"]
           ELSE IF promises = <<>> /\ ~hasLimit
           THEN modal' = [modal EXCEPT !.toast = "empty"]
           ELSE modal' =
                    [modal EXCEPT
                        !.issued =
                            modal.issued \o promises
                            \o (IF hasLimit
                                THEN <<LimitRequest(Parsed(limit))>>
                                ELSE <<>>),
                        !.toast = "none"]
        /\ UNCHANGED <<users, creditTransactions, req, now, searches,
                       searchCost, client, provider>>

\* An admin at the credit modal.
NextModal ==
    \/ TypeAmount
    \/ TypeLimit
    \/ handleClose
    \/ handleSubmit

ModalSpec == Init /\ [][NextModal]_vars

\* ----------------------------------------------------------------- claims

Max0(x) == IF x > 0 THEN x ELSE 0

\* The credit transactions of user u, oldest first.
TxOf(u) == SelectSeq(creditTransactions, LAMBDA t : t.userId = u)

RECURSIVE Replay(_, _)
\* The balance after applying balance := max(0, balance + amount) for each
\* transaction of txs in order, starting from balance bal.
Replay(bal, txs) ==
    IF txs = <<>> THEN bal ELSE Replay(Max0(bal + Head(txs).amount), Tail(txs))

RECURSIVE SumAmounts(_)
SumAmounts(txs) ==
    IF txs = <<>> THEN 0 ELSE Head(txs).amount + SumAmounts(Tail(txs))

\* Request r takes the step that writes the balance / that ends the call.
WritesBalance(r) ==
    req[r].route = "credits" /\ req[r].pc = "update" /\ req'[r].pc = "insert"

EndsAfterWrite(r) ==
    req[r].route = "credits" /\ req[r].pc = "insert" /\ req'[r].pc = "done"

\* The ledger is called: the route let the request through to updateUserCredits.
CallsLedger(r) ==
    /\ req[r].pc = "idle"
    /\ req'[r].route = "credits"
    /\ req'[r].status \notin {400, 403}

\* The log grew by exactly one row, the rows it had unchanged.
AppendedOne ==
    /\ Len(creditTransactions') = Len(creditTransactions) + 1
    /\ SubSeq(creditTransactions', 1, Len(creditTransactions)) = creditTransactions

\* C1: handled one call at a time, a completed applyAdjustment(u, a) on a user
\* with balance previous leaves u.credits = max(0, previous + a) and appends
\* exactly one transaction of u with amount a, previousBalance previous and
\* newBalance u.credits.
C1_AdjustmentContract ==
    [][\A r \in Reqs :
        /\ CallsLedger(r) => creditTransactions' = creditTransactions
        /\ WritesBalance(r) =>
              /\ users[req[r].id].credits = req[r].read
              /\ users'[req[r].id].credits =
                     Max0(users[req[r].id].credits + req[r].amount)
              /\ creditTransactions' = creditTransactions
        /\ (EndsAfterWrite(r) /\ req'[r].status = 200) =>
              /\ users'[req[r].id].credits = Max0(req[r].read + req[r].amount)
              /\ AppendedOne
              /\ LET t == creditTransactions'[Len(creditTransactions')] IN
                    /\ t.userId = req[r].id
                    /\ t.amount = req[r].amount
                    /\ t.previousBalance = req[r].read
                    /\ t.newBalance = users'[req[r].id].credits
      ]_vars

\* A user at 50 was debited 80: credits 0, record -80 / 50 / 0.
C1_Witness ==
    \E r \in Reqs :
        /\ req[r].pc = "done" /\ req[r].route = "credits" /\ req[r].status = 200
        /\ req[r].amount = -80
        /\ users[req[r].id].credits = 0
        /\ creditTransactions # <<>>
        /\ LET t == creditTransactions[Len(creditTransactions)] IN
              t.userId = req[r].id /\ t.amount = -80 /\ t.previousBalance = 50
              /\ t.newBalance = 0

\* C2: in every reachable state every user's credits is >= 0.
C2_CreditsNeverNegative ==
    \A u \in DOMAIN users : users[u].credits >= 0

\* C3: applyAdjustment is atomic: a call that has written the new balance and
\* ends has also inserted the transaction, or the balance is back at the value
\* the call found.
C3_AdjustmentAtomic ==
    [][\A r \in Reqs :
        EndsAfterWrite(r) =>
            \/ AppendedOne
            \/ users'[req[r].id].credits = req[r].read
      ]_vars

\* Another adjustment of the same user is running while r is.
Concurrent(r) ==
    \E q \in Reqs \ {r} :
        /\ req[q].route = "credits" /\ req[q].id = req[r].id
        /\ req[q].pc \in {"update", "insert"}

\* C4: concurrent adjustments of one user serialize, no update is lost: the
\* balance write of an adjustment that runs concurrently with another one
\* applies its amount to the balance the user holds when the write lands (as
\* in any serial order of the calls), so two amounts a1 and a2 that never hit
\* the clamp leave b + a1 + a2.
C4_AdjustmentsSerialize ==
    [][\A r \in Reqs :
        (WritesBalance(r) /\ Concurrent(r)) =>
            users'[req[r].id].credits =
                Max0(users[req[r].id].credits + req[r].amount)
      ]_vars

\* C5: only the ledger's balance write changes the credits of an existing user.
C5_CreditsWrittenByLedgerOnly ==
    [][\A u \in DOMAIN users :
        users'[u].credits # users[u].credits =>
            \E r \in Reqs : WritesBalance(r) /\ req[r].id = u
      ]_vars

\* Every stored transaction has newBalance = max(0, previousBalance + amount).
NewBalanceConsistent ==
    \A i \in 1..Len(creditTransactions) :
        creditTransactions[i].newBalance =
            Max0(creditTransactions[i].previousBalance
                 + creditTransactions[i].amount)

\* C6: every stored transaction has newBalance = max(0, previousBalance +
\* amount), and the previousBalance an adjustment records is the balance the
\* user has in the store when the adjustment's balance write is applied.
C6_PreviousBalanceIsActual ==
    /\ []NewBalanceConsistent
    /\ [][\A r \in Reqs :
            WritesBalance(r) => users[req[r].id].credits = req[r].read
         ]_vars

\* No adjustment of user u is between its balance write and its insert.
Settled(u) ==
    \A r \in Reqs :
        ~(req[r].route = "credits" /\ req[r].pc = "insert" /\ req[r].id = u)

\* C7: replaying a user's transactions in the order applied, from credits 0,
\* yields the user's current credits.
C7_ReplayReproducesBalance ==
    \A u \in DOMAIN users :
        Settled(u) => Replay(0, TxOf(u)) = users[u].credits

\* C8: the log is append-only (rows are never changed or removed) and every
\* ledger mutation creates exactly one transaction, never zero, never two.
C8_AppendOnlyOnePerMutation ==
    [][/\ Len(creditTransactions') >= Len(creditTransactions)
       /\ SubSeq(creditTransactions', 1, Len(creditTransactions))
              = creditTransactions
       /\ Len(creditTransactions') <= Len(creditTransactions) + 1
       /\ \A r \in Reqs : EndsAfterWrite(r) => AppendedOne
      ]_vars

Accepts(r, u, a) ==
    /\ Handle(r)
    /\ req'[r].route = "credits" /\ req'[r].pc = "update"
    /\ req'[r].id = u /\ req'[r].amount = a
    /\ req'[r].newBalance = Max0(users[u].credits + a)

Answers(r, route) ==
    /\ req[r].pc = "idle"
    /\ req'[r].pc = "done"
    /\ req'[r].route = route
    /\ req'[r].status # 403

\* The columns of a user row other than updatedAt.
Columns ==
    {"email", "password", "firstName", "lastName", "role", "status", "credits",
     "creditLimit"}

\* In this step no row other than u's changes and no row appears or goes.
OnlyRowChanges(u) ==
    /\ DOMAIN users' = DOMAIN users
    /\ \A v \in DOMAIN users : v # u => users'[v] = users[v]

\* C11: setLimit(userId, limit) with limit < 0 fails with InvalidArgument (400)
\* and leaves creditLimit and every other stored field unchanged; with
\* limit >= 0 it succeeds and changes only that user's creditLimit (and
\* updatedAt): credits, status, role and the transaction log stay.
C11_SetLimitContract ==
    [][\A r \in Reqs :
        Answers(r, "creditLimit") =>
            LET limit == req'[r].data.limit
                u == req'[r].id
            IN  /\ creditTransactions' = creditTransactions
                /\ limit < 0 => (req'[r].status = 400 /\ users' = users)
                /\ limit >= 0 =>
                       /\ req'[r].status = 200
                       /\ OnlyRowChanges(u)
                       /\ u \in DOMAIN users =>
                              /\ users'[u].creditLimit = limit
                              /\ \A c \in Columns \ {"creditLimit"} :
                                     users'[u][c] = users[u][c]
      ]_vars

\* A limit of 10 was stored for a user, whose credits are untouched.
C11_Witness ==
    \E r \in Reqs :
        /\ req[r].pc = "done" /\ req[r].route = "creditLimit"
        /\ req[r].status = 200 /\ req[r].data.limit = 10
        /\ req[r].id \in DOMAIN users
        /\ users[req[r].id].creditLimit = 10
        /\ users[req[r].id].credits = DefaultCredits

\* C12: in every reachable state, admin user update and user creation
\* included, every user's creditLimit is an integer >= 0.
C12_CreditLimitNonNegative ==
    \A u \in DOMAIN users : users[u].creditLimit >= 0

\* C13: create(profile) with an email that is already registered fails with
\* Conflict (400, "Email ja cadastrado"): the request ends there, no user row
\* is inserted and no CreditTransaction created, the set of users and the log
\* are the same before and after.
C13_CreateDuplicateEmail ==
    [][\A r \in Reqs :
        ( /\ req[r].pc = "idle"
          /\ req'[r].pc # "idle"
          /\ req'[r].route = "createUser"
          /\ "email" \in DOMAIN req'[r].data
          /\ \E u \in DOMAIN users : users[u].email = req'[r].data.email )
        => /\ req'[r].pc = "done"
           /\ req'[r].status = 400
           /\ req'[r].message = EmailAlreadyRegistered
           /\ users' = users
           /\ creditTransactions' = creditTransactions
      ]_vars

\* A create with the seeded admin's email was refused; the seed is the only
\* user.
C13_Witness ==
    \E r \in Reqs :
        /\ req[r].pc = "done" /\ req[r].route = "createUser"
        /\ req[r].status = 400 /\ req[r].message = EmailAlreadyRegistered
        /\ req[r].data.email = SeedEmail
        /\ DOMAIN users = {1}
        /\ creditTransactions = <<>>

\* C14: every admin operation (create user, list users, stats, admin user
\* update, credit adjustment, setLimit, transaction history, block, unblock)
\* requested by a session whose role is not admin is rejected as Unauthorized
\* (403) and leaves all users and all transactions unchanged.
C14_AdminRoutesGuarded ==
    [][\A r \in Reqs :
        ( /\ req[r].pc = "idle"
          /\ req'[r].pc # "idle"
          /\ req'[r].route \in AdminRoutes
          /\ users[req'[r].actor].role # "admin" )
        => /\ req'[r].pc = "done"
           /\ req'[r].status = 403
           /\ users' = users
           /\ creditTransactions' = creditTransactions
      ]_vars

\* A regular user asked for a credit adjustment and was answered 403.
C14_Witness ==
    \E r \in Reqs :
        /\ req[r].pc = "done" /\ req[r].route = "credits"
        /\ req[r].status = 403
        /\ users[req[r].actor].role = "regular"

\* Request r is answered in this step by blockUser on a user who is blocked
\* already, or by unblockUser on one who is active already.
RepeatsStatus(r) ==
    \/ /\ Answers(r, "block")
       /\ req'[r].id \in DOMAIN users
       /\ users[req'[r].id].status = "blocked"
    \/ /\ Answers(r, "unblock")
       /\ req'[r].id \in DOMAIN users
       /\ users[req'[r].id].status = "active"

\* C15 as stated: setStatus is idempotent: blocking an already-blocked user
\* (unblocking an already-active one) succeeds and returns a record equal to
\* the record as it was before the call.
C15_RepeatedStatusReturnsSameRecord ==
    [][\A r \in Reqs :
        RepeatsStatus(r) =>
            /\ req'[r].status = 200
            /\ req'[r].body = Sanitized(users[req'[r].id])
      ]_vars

\* C15, amended: blocking an already-blocked user (unblocking an
\* already-active one) succeeds and returns the record as it was before the
\* call in every field but updatedAt, which is set to the time of the call;
\* the stored row is the returned one and no other row changes.
C15_RepeatedStatusKeepsAllButStamp ==
    [][\A r \in Reqs :
        RepeatsStatus(r) =>
            LET u == req'[r].id IN
            /\ req'[r].status = 200
            /\ req'[r].body =
                   Sanitized([users[u] EXCEPT !.updatedAt = now])
            /\ users'[u] = [users[u] EXCEPT !.updatedAt = now]
            /\ OnlyRowChanges(u)
      ]_vars

\* The first request of the run unblocked the seeded admin, active since the
\* seed, at a later instant: the row is the seeded one with a new updatedAt.
C15_Witness ==
    /\ req[1].pc = "done" /\ req[1].route = "unblock" /\ req[1].status = 200
    /\ req[1].id = 1
    /\ now = 1
    /\ users[1].updatedAt = 1
    /\ req[1].body = Sanitized(users[1])
    /\ \A c \in Columns : users[1][c] = SeedAdmin[c]

\* C16: setStatus(id, blocked) followed by setStatus(id, active) leaves the
\* user with status active and every other field (email, password, names,
\* role, credits, creditLimit) as before the two calls: the block sets the
\* status to blocked and the unblock sets it to active, and each of the two
\* leaves every other field of the user as it finds it.
C16_BlockThenUnblockRestores ==
    [][\A r \in Reqs :
        LET u == req'[r].id IN
        /\ (Answers(r, "block") /\ u \in DOMAIN users) =>
               /\ req'[r].status = 200
               /\ users'[u].status = "blocked"
               /\ \A c \in Columns \ {"status"} : users'[u][c] = users[u][c]
        /\ (Answers(r, "unblock") /\ u \in DOMAIN users) =>
               /\ req'[r].status = 200
               /\ users'[u].status = "active"
               /\ \A c \in Columns \ {"status"} : users'[u][c] = users[u][c]
      ]_vars

\* After a first request the second one, at a later instant, unblocked the
\* seeded admin: the admin is active and every other field is the seeded one.
C16_Witness ==
    /\ req[1].pc = "closed"
    /\ req[2].pc = "done" /\ req[2].route = "unblock" /\ req[2].status = 200
    /\ req[2].id = 1
    /\ users[1].status = "active"
    /\ users[1].updatedAt = 1
    /\ \A c \in Columns : users[1][c] = SeedAdmin[c]

\* C17: blocking or unblocking a user changes neither that user's credits nor
\* any CreditTransaction, and changes nothing of any other user.
C17_StatusLeavesCreditsAndOthers ==
    [][\A r \in Reqs :
        (Answers(r, "block") \/ Answers(r, "unblock")) =>
            /\ creditTransactions' = creditTransactions
            /\ OnlyRowChanges(req'[r].id)
            /\ \A u \in DOMAIN users : users'[u].credits = users[u].credits
      ]_vars

\* User 2, created with 10 credits, was blocked: the credits are still 10 and
\* the admin is still active.
C17_Witness ==
    \E r \in Reqs :
        /\ req[r].pc = "done" /\ req[r].route = "block" /\ req[r].status = 200
        /\ req[r].id = 2
        /\ 2 \in DOMAIN users
        /\ users[2].status = "blocked" /\ users[2].credits = 10
        /\ users[1].status = "active"

\* C18: updateProfile is a partial update: called with any subset of
\* {firstName, lastName}, through PUT /api/user/profile or PUT /api/users/:id,
\* it succeeds, changes exactly the supplied fields and leaves the field that
\* was not supplied, the email, the password and every other column unchanged.
C18_ProfilePartialUpdate ==
    [][\A r \in Reqs :
        ( /\ Answers(r, "profile") \/ Answers(r, "updateUser")
          /\ DOMAIN req'[r].data \subseteq {"firstName", "lastName"}
          /\ req'[r].id \in DOMAIN users )
        => LET u == req'[r].id
               body == req'[r].data
           IN  /\ req'[r].status = 200
               /\ \A c \in Columns :
                      users'[u][c] =
                          IF c \in DOMAIN body THEN body[c] ELSE users[u][c]
      ]_vars

\* The regular users of the store.
RegularUsers == {u \in DOMAIN users : users[u].role = "regular"}

RECURSIVE CreditsOfRegularUpTo(_)
\* The credits of the regular users with an id up to n, added up.
CreditsOfRegularUpTo(n) ==
    IF n = 0 THEN 0
    ELSE (IF n \in RegularUsers THEN users[n].credits ELSE 0)
         + CreditsOfRegularUpTo(n - 1)

\* The scenario of the spec, with an admin beside the two regular users: an
\* admin holding 5 credits, a regular user with 10, a blocked regular user
\* with 20.
ScenarioUsers ==
    (1 :> [SeedAdmin EXCEPT !.credits = 5]) @@
    (2 :> UserRow("a@x.com", "h1", "n1", "n1", "regular", 10)) @@
    (3 :> [UserRow("b@x.com", "h1", "n1", "n1", "regular", 20)
              EXCEPT !.status = "blocked"])

\* C19: stats() counts only users with role regular: totalUsers is the number
\* of regular users, activeUsers and blockedUsers the numbers of them with
\* status active and blocked, totalCredits the sum of their credits (0 when
\* there are none); admins contribute to none of the four, and totalUsers =
\* activeUsers + blockedUsers.  Two regular users with credits 10 and 20, one
\* blocked, give 2 / 1 / 1 / 30.
C19_StatsCountRegularOnly ==
    /\ [](StatsOf(ScenarioUsers) =
             [totalUsers |-> 2, activeUsers |-> 1, blockedUsers |-> 1,
              totalCredits |-> 30])
    /\ [][\A r \in Reqs :
            Answers(r, "stats") =>
                LET stats == req'[r].body IN
                /\ req'[r].status = 200
                /\ stats.totalUsers = Cardinality(RegularUsers)
                /\ stats.activeUsers =
                       Cardinality({u \in RegularUsers :
                                       users[u].status = "active"})
                /\ stats.blockedUsers =
                       Cardinality({u \in RegularUsers :
                                       users[u].status = "blocked"})
                /\ stats.totalCredits = CreditsOfRegularUpTo(MaxUsers)
                /\ stats.totalUsers = stats.activeUsers + stats.blockedUsers
                /\ RegularUsers = {} => stats.totalCredits = 0
                /\ users' = users
         ]_vars

\* The stats of a store that holds an admin and one regular user with 10
\* credits: one user, active, 10 credits.
C19_Witness ==
    \E r \in Reqs :
        /\ req[r].pc = "done" /\ req[r].route = "stats" /\ req[r].status = 200
        /\ \E u \in DOMAIN users : users[u].role = "admin"
        /\ req[r].body =
               [totalUsers |-> 1, activeUsers |-> 1, blockedUsers |-> 0,
                totalCredits |-> 10]

\* A sequence back to front.
Reverse(seq) == [k \in 1..Len(seq) |-> seq[Len(seq) + 1 - k]]

\* C20: history(userId) returns all CreditTransactions of that user and none
\* of another user, newest first: of any two transactions of the user the one
\* applied later comes earlier in the result, also when both were created at
\* the same timestamp.  Whatever the query gives is the user's transactions
\* in the reverse of the order they were applied in.
C20_HistoryNewestFirst ==
    \A u \in UserIds :
        \A transactions \in getCreditTransactions(u) :
            transactions = Reverse(TxOf(u))

\* ------------------------------------------------------ claims C21 to C30

\* The routes that take the id of a user and look that user up.
UserIdRoutes == {"creditLimit", "block", "unblock", "updateUser", "transactions"}

\* C22: every operation addressed to a user id that resolves to no user
\* (setLimit, block, unblock, admin user update, transaction history) is
\* answered with a NotFound failure (404), distinct from success and from a
\* generic failure, and leaves the stored state unchanged.  A request whose
\* body is refused before any lookup (400) is left aside.
C22_UnknownUserNotFound ==
    [][\A r \in Reqs : \A route \in UserIdRoutes :
        (/\ Answers(r, route)
         /\ req'[r].id \notin DOMAIN users
         /\ req'[r].status # 400)
            => /\ req'[r].status = 404
               /\ users' = users
               /\ creditTransactions' = creditTransactions
      ]_vars

\* Request r takes a step of its handler (its response leaving is not one).
Steps(r) == req'[r] # req[r] /\ req'[r].pc # "closed"

\* C24: blocking a user prevents that user's access: while a user's stored
\* status is blocked, no request authenticated as that user (own profile
\* update, password change, every admin operation if the user is an admin)
\* changes any stored state.  Stated here for the server: a handler step of
\* a request whose session user is stored as blocked leaves both tables as
\* they are.
C24_BlockedUserChangesNothing ==
    [][\A r \in Reqs :
        (/\ Steps(r)
         /\ req'[r].actor \in DOMAIN users
         /\ users[req'[r].actor].status = "blocked")
            => /\ users' = users
               /\ creditTransactions' = creditTransactions
      ]_vars

\* No two rows of the users table hold the same email.
NoSharedEmail ==
    \A u, v \in DOMAIN users : users[u].email = users[v].email => u = v

\* Request r, a create that passed the existence check, reaches its INSERT
\* when another request has stored its email in between.
LosesCreateRace(r) ==
    /\ req[r].route = "createUser"
    /\ req[r].pc = "insertUser"
    /\ req'[r].pc = "done"
    /\ getUserByEmail(req[r].data.email) # {}

\* C27: no two users ever share an email, also when two create requests for
\* the same email run concurrently (both pass the existence check before
\* either inserts): at most one of them creates a user, and the other is
\* answered with the Conflict failure (400, "Email ja cadastrado") rather
\* than a generic failure.
C27_ConcurrentCreateConflict ==
    /\ []NoSharedEmail
    /\ [][\A r \in Reqs :
            LosesCreateRace(r) =>
                /\ users' = users
                /\ req'[r].status = 400
                /\ req'[r].message = EmailAlreadyRegistered
         ]_vars

\* The routes whose response body is one user record.
UserRecordRoutes ==
    {"authUser", "profile", "createUser", "updateUser", "credits",
     "creditLimit", "block", "unblock"}

\* C28: no response of the API that carries a user record (current user,
\* profile update, user creation, user list, admin user update, credit
\* adjustment, setLimit, block, unblock) contains that user's password hash.
C28_NoPasswordInResponse ==
    \A r \in Reqs :
        req[r].pc = "done" =>
            /\ req[r].route \in UserRecordRoutes =>
                   "password" \notin DOMAIN req[r].body
            /\ req[r].route = "listUsers" =>
                   \A i \in DOMAIN req[r].body :
                       "password" \notin DOMAIN req[r].body[i]

\* The columns of a search other than finalizado.
SearchColumns == {"id", "userId", "creditsUsed", "createdAt"}

\* C21: every Search record is created with finalizado = false, whatever the
\* caller passes in the record request; after creation no operation changes
\* any field of a Search other than finalizado, nor deletes a Search.
C21_CreatedUnfinishedThenFrozen ==
    [][/\ Len(searches') >= Len(searches)
       /\ \A i \in 1..Len(searches) :
              \A c \in SearchColumns : searches'[i][c] = searches[i][c]
       /\ \A i \in (Len(searches) + 1)..Len(searches') :
              ~searches'[i].finalizado
      ]_vars

\* The status-check requests among the requests sent to the provider.
StatusRequests == {k \in 1..Len(provider) : provider[k].kind = "status"}

\* Any two status-check requests are at least 30 seconds apart.
CooldownKept ==
    \A i, j \in StatusRequests :
        i < j => provider[j].at - provider[i].at >= Cooldown

\* A click on refresh is refused in this step: by the cooldown, or because
\* no search is pending.
RefreshRefused ==
    /\ client'.toast # client.toast
    /\ client'.toast \in {"wait", "none pending"}

\* C25: the status refresh is rate limited: between any two status-check
\* requests one client session sends to the provider at least 30 seconds
\* elapse, whatever the sequence of clicks and whether the earlier request
\* succeeded or failed; a refresh refused by the cooldown or made when no
\* search is pending sends no request and does not restart the cooldown.
C25_RefreshRateLimited ==
    /\ []CooldownKept
    /\ [][RefreshRefused =>
              /\ provider' = provider
              /\ client'.lastStatusUpdate = client.lastStatusUpdate
              /\ ~client'.isUpdatingStatus
         ]_vars

\* Two status checks were sent exactly 30 seconds apart, the second after a
\* click in between was refused by the cooldown.
C25_Witness ==
    /\ Len(provider) = 2
    /\ StatusRequests = {1, 2}
    /\ provider[2].at - provider[1].at = Cooldown
    /\ client.toast = "wait"
    /\ client.lastStatusUpdate = provider[2].at

\* The age of a search, in milliseconds.
Age(search) == now - search.createdAt

\* The state the claim gives a search of this flag and age.
StateOf(finalizado, age) ==
    IF finalizado THEN "Finalizada"
    ELSE IF age > ExpiryHours * MsPerHour THEN "Expirada"
    ELSE "Processando"

\* The last request sent to the provider.
LastCall(calls) == calls[Len(calls)]

\* C26: the displayed state of a search is derived from (finalizado, age)
\* only: finalized if finalizado is true whatever the age, expired if
\* finalizado is false and the age is over 6 hours, processing otherwise.
\* The refresh asks the provider about exactly the searches displayed as
\* processing (finalizado false and age <= 6 h), never about a finalized or
\* an expired one.
C26_DisplayedStateDerived ==
    /\ [](\A s \in CachedSearches : Badge(s) = StateOf(s.finalizado, Age(s)))
    /\ [][(Len(provider') > Len(provider)
            /\ LastCall(provider').kind = "status") =>
              LastCall(provider').ids =
                  {s.id : s \in {c \in CachedSearches :
                                    /\ ~c.finalizado
                                    /\ Age(c) <= ExpiryHours * MsPerHour}}
         ]_vars

\* The page holds a finalized search and one that is unfinished and exactly
\* six hours old; the refresh asked the provider about the second only.
C26_Witness ==
    /\ Len(provider) = 1
    /\ \E s, t \in CachedSearches :
           /\ s.finalizado
           /\ ~t.finalizado
           /\ provider[1].at - getTime(t.createdAt) = ExpiryHours * MsPerHour
           /\ provider[1].ids = {t.id}

\* A search request leaves for the provider in this step.
SendsSearch ==
    /\ Len(provider') > Len(provider)
    /\ LastCall(provider').kind = "search"

\* C23: a search submission by a user who is no admin and whose credits are
\* less than the search cost is refused before anything else happens: no
\* request is sent to the provider and no Search record is created.  The
\* comparison uses the user's stored balance at submission, also when an
\* admin debited the user after the client last fetched the user record.
\* Whenever a search request is sent for a regular user, the stored balance
\* covers the cost.
C23_InsufficientCreditsRefused ==
    [][(SendsSearch /\ users[client.id].role # "admin") =>
           users[client.id].credits >= client.searchCost
      ]_vars

\* C30: an admin is never prevented from submitting a search for lack of
\* credits: for a user with role admin, whatever the credits and the search
\* cost, both the submit control and the submission guard allow the search,
\* and the recorded search has creditsUsed = 0; for a regular user
\* creditsUsed equals the search cost in force at submission.
C30_AdminNeverRefused ==
    /\ []((OnHomePage /\ client.user.role = "admin" /\ ~client.isPending)
             => ~SubmitDisabled)
    /\ [][SendsSearch =>
              client'.creditsUsed = IF users[client.id].role = "admin"
                                    THEN 0 ELSE searchCost
         ]_vars

\* The form reports an invalid credit limit in this step: a submit (the
\* fields stay as typed) that ends with the toast of the limit.
RejectsLimit ==
    /\ modal' # modal
    /\ modal'.creditAmount = modal.creditAmount
    /\ modal'.creditLimit = modal.creditLimit
    /\ modal'.toast = "invalid limit"

\* C29: in the credit form that edits amount and limit together, a submit
\* that is rejected by validation sends nothing: when the form reports an
\* invalid credit limit (not a number or negative), neither the credit
\* adjustment request nor the limit request is issued.
C29_RejectedSubmitSendsNothing ==
    [][RejectsLimit => modal'.issued = modal.issued]_vars

====
